---------------------------- MODULE Spec2Model ----------------------------
(***************************************************************************)
(* Unified-document persistence of PersonalityAndMusicInsights             *)
(* (src/db_utils.py): the retry decorator, the per-session identity and    *)
(* upsert_user_document, run by overlapping calls of several browser       *)
(* sessions against one 'users' collection.                                *)
(*                                                                         *)
(* A call is suspended only where the code blocks on I/O: inside           *)
(* get_mongo_client() and inside collection.update_one().  The code        *)
(* between two such points runs as one step.  update_one is one request    *)
(* to the store, which applies it in one step or raises.                   *)
(*                                                                         *)
(* Further down: calculate_scores of src/survey.py (SpecScore,             *)
(* SpecInvert), the page workflow of src/webapp.py with the Spotify fetch  *)
(* of src/spotify.py (SpecFlow, and FairFlow for its progress),            *)
(* get_user_data (SpecRead), the results page (SpecResults), the survey    *)
(* form of src/survey.py (SpecSurvey) and a wrapper of retry_connection    *)
(* on its own (SpecRetry, FairRetry).                                      *)
(***************************************************************************)
EXTENDS Integers, Sequences, FiniteSets, TLC

\* ------------------------------------------------------------------ bounds
NumSessions == 2
NumCalls == 2
\* the largest max_attempts a retry_connection decorator is built with
AttemptLimit == 4

Sessions == 1..NumSessions
Calls == 1..NumCalls

\* ------------------------------------------------------- program constants
\* @retry_connection(max_attempts=3) on upsert_user_document
max_attempts == 3

\* the keys of field_mapping
MappedTypes ==
    { "survey_results",
      "top_tracks_short_term", "top_tracks_long_term", "top_tracks_medium_term",
      "top_artists_short_term", "top_artists_medium_term", "top_artists_long_term",
      "recently_played", "playlists", "following" }

\* the identifiers callers pass that are not keys of field_mapping: the two
\* used by the stages, the third one the docstring names, and a free one
UnmappedTypes == { "demographics", "big5", "spotify", "notes" }

DataTypes == MappedTypes \cup UnmappedTypes

\* the identifiers the stages of the application pass: the demographics form
\* (demographics.py, save_demographics) and the survey bundle (webapp.py,
\* save_survey_results)
StageTypes == { "demographics", "big5" }

\* payloads are lists of items, which the code stores without looking into
\* them; two different one-item lists tell an overwrite from an append
Payloads == { << "a" >>, << "b" >> }

NoId == 0
NoPath == << >>

VARIABLES
    store,      \* the 'users' collection: documents in insertion order
    session,    \* st.session_state of each session
    calls,      \* each call of upsert_user_document: position and locals
    clock,      \* datetime.now()
    nextId,     \* the next value uuid.uuid4() hands out
    nwrites,    \* number of update_one requests the store has applied
    app,        \* the workflow's entries of st.session_state, first session
    retry       \* a wrapper of retry_connection on its own: parameters and locals

vars == << store, session, calls, clock, nextId, nwrites, app, retry >>

\* ------------------------------------------------------------ the document
EmptyFields == [p \in {} |-> << >>]

\* a $set that replaces the whole document body by the one field
SetField_replace(fields, path, data) == [p \in {path} |-> data]

\* a $set that appends the payload to what the field holds
SetField_append(fields, path, data) ==
    [p \in (DOMAIN fields) \cup {path} |->
        IF p # path THEN fields[p]
        ELSE IF p \in DOMAIN fields THEN fields[p] \o data ELSE data]

\* a $set that keeps what the field holds when it is present
SetField_keep(fields, path, data) ==
    [p \in (DOMAIN fields) \cup {path} |->
        IF p \in DOMAIN fields THEN fields[p] ELSE data]

\* "$set": {path: data} on the fields of one document
SetField(fields, path, data) ==
    [p \in (DOMAIN fields) \cup {path} |-> IF p = path THEN data ELSE fields[p]]

Matches(coll, user_id) == { i \in 1..Len(coll) : coll[i].id = user_id }

FirstMatch(coll, user_id) ==
    CHOOSE i \in Matches(coll, user_id) : \A j \in Matches(coll, user_id) : i <= j

\* an upsert that never matches: every request inserts a document
update_one_insert(coll, user_id, path, data, now) ==
    Append(coll, [id |-> user_id, created_at |-> now,
                  fields |-> [p \in {path} |-> data]])

\* an upsert with created_at under "$set" instead of "$setOnInsert"
update_one_touch(coll, user_id, path, data, now) ==
    IF \E i \in 1..Len(coll) : coll[i].id = user_id
    THEN LET i == CHOOSE k \in 1..Len(coll) : coll[k].id = user_id IN
         [coll EXCEPT ![i].created_at = now,
                      ![i].fields = [p \in (DOMAIN @) \cup {path} |->
                                        IF p = path THEN data ELSE @[p]]]
    ELSE Append(coll, [id |-> user_id, created_at |-> now,
                       fields |-> [p \in {path} |-> data]])

\* a read of the document followed by a write of the whole document: the
\* written document holds the new section only
update_one_whole(coll, user_id, path, data, now) ==
    IF \E i \in 1..Len(coll) : coll[i].id = user_id
    THEN LET i == CHOOSE k \in 1..Len(coll) : coll[k].id = user_id IN
         [coll EXCEPT ![i].fields = [p \in {path} |-> data]]
    ELSE Append(coll, [id |-> user_id, created_at |-> now,
                       fields |-> [p \in {path} |-> data]])

\* collection.update_one({"id": user_id},
\*     {"$set": {path: data}, "$setOnInsert": {"id": user_id, "created_at": now}},
\*     upsert=True)
update_one(coll, user_id, path, data, now) ==
    IF Matches(coll, user_id) # {}
    THEN [coll EXCEPT ![FirstMatch(coll, user_id)].fields = SetField(@, path, data)]
    ELSE Append(coll, [id |-> user_id, created_at |-> now,
                       fields |-> SetField(EmptyFields, path, data)])

\* what find_one gives when no document matches (None)
NoDoc == [id |-> NoId, created_at |-> 0, fields |-> EmptyFields]

\* collection.find_one({"id": user_id})
find_one(coll, user_id) ==
    IF Matches(coll, user_id) = {} THEN NoDoc ELSE coll[FirstMatch(coll, user_id)]

\* ------------------------------------------------------------ field mapping
\* field_mapping.get(data_type, data_type)
field_name(data_type) ==
    CASE data_type = "survey_results" -> "big5"
      [] data_type = "top_tracks_short_term" -> "spotify"
      [] data_type = "top_tracks_long_term" -> "spotify"
      [] data_type = "top_tracks_medium_term" -> "spotify"
      [] data_type = "top_artists_short_term" -> "spotify"
      [] data_type = "top_artists_medium_term" -> "spotify"
      [] data_type = "top_artists_long_term" -> "spotify"
      [] data_type = "recently_played" -> "spotify"
      [] data_type = "playlists" -> "spotify"
      [] data_type = "following" -> "spotify"
      [] OTHER -> data_type

\* the key of update_field, as the list of its dot-separated parts
update_path(data_type) ==
    IF field_name(data_type) = "spotify"
    THEN << field_name(data_type), data_type >>
    ELSE << field_name(data_type) >>

Paths == { update_path(dt) : dt \in DataTypes }

\* ------------------------------------------------------------------- calls
IdleCall ==
    [ pc |-> "idle", session |-> 0, data_type |-> "", data |-> << >>,
      tries |-> 0, attempts |-> 0,
      user_id |-> NoId, now |-> 0, path |-> NoPath,
      result |-> "pending", seq |-> 0, overlap |-> {} ]

InFlight == { c \in Calls : calls[c].pc \notin {"idle", "done"} }

\* the entries webapp.py gives a new session (lines 134-149), with the keys
\* survey.py adds on its first run; an absent key is the empty mapping or FALSE
FreshApp ==
    [ app_state |-> "welcome",
      survey_completed |-> FALSE,
      demographics_completed |-> FALSE,
      spotify_initialized |-> FALSE,
      spotify_data_collected |-> FALSE,
      spotify_data_collection_attempted |-> FALSE,
      spotify_token |-> FALSE,
      spotify_user |-> FALSE,
      submitted |-> FALSE,
      survey_data_saved |-> FALSE,
      retried |-> FALSE,
      view |-> [ seen |-> FALSE, shown |-> FALSE, buttons |-> {} ],
      responses |-> << >>,
      responses_by_text |-> << >>,
      current_question |-> 0,
      reanswered |-> FALSE,
      score_results |-> << >>,
      scores_before |-> << >>,
      at |-> "page",
      call |-> 0,
      fetch |-> [ result |-> FALSE, failed_at |-> 0, log |-> << >>,
                  saved |-> {}, upserts |-> {} ],
      trail |-> << "welcome" >>,
      read |-> [ session |-> 0, user_id |-> NoId, connected |-> FALSE,
                 ok |-> FALSE, result |-> NoDoc, raised |-> FALSE ] ]

\* a wrapper built by retry_connection() with its defaults (line 8), not
\* yet called; outcomes and waits keep what its calls of func gave and the
\* time.sleep calls it made
IdleRetry ==
    [ max_attempts |-> 3, delay |-> 2, pc |-> "idle", attempts |-> 0,
      func_calls |-> 0, outcomes |-> << >>, waits |-> << >>, result |-> "pending" ]

Init ==
    /\ store = << >>
    /\ \E conn \in [Sessions -> BOOLEAN] :
          session = [s \in Sessions |->
                        [ mongo_connected |-> conn[s],
                          user_id |-> IF conn[s] THEN s ELSE NoId ]]
    /\ calls = [c \in Calls |-> IdleCall]
    /\ clock = 1
    /\ nextId = NumSessions + 1
    /\ nwrites = 0
    /\ app = FreshApp
    /\ retry = IdleRetry

\* -------------------------------------------------- upsert_user_document
Return(v) == [kind |-> "return", value |-> v]
Raise == [kind |-> "raise"]

\* a body without the except clause: the exception reaches the decorator
save_error_raise == Raise

\* what the body does with an exception of its try block
\* (except Exception as e: st.error(...); return False)
save_error == Return("False")

\* what the body does when get_mongo_client() gave no client (return False)
no_client == Return("False")

\* the last statement of the try block (return True)
saved == Return("True")

\* a generate_user_id that makes a new identifier on every call
generate_user_id_fresh(sess) == [sess EXCEPT !.user_id = nextId]

\* generate_user_id() on the session state sess
generate_user_id(sess) ==
    IF sess.user_id = NoId THEN [sess EXCEPT !.user_id = nextId] ELSE sess

\* lines 73-110, run with the session connected: the identity, the timestamp
\* and the update path, up to the update_one request
Prepare(c, call, sess) ==
    LET sess2 == generate_user_id(sess) IN
    /\ session' = [session EXCEPT ![call.session] = sess2]
    /\ nextId' = IF sess.user_id = NoId THEN nextId + 1 ELSE nextId
    /\ clock' = clock + 1
    /\ calls' = [calls EXCEPT ![c] =
                   [call EXCEPT !.pc = "update_one",
                                !.user_id = sess2.user_id,
                                !.now = clock,
                                !.path = update_path(call.data_type)]]

\* the body from its first line to its first blocking point: the connection
\* test of line 60, then either get_mongo_client() or lines 73-110
Body(c, call) ==
    IF session[call.session].mongo_connected
    THEN Prepare(c, call, session[call.session])
    ELSE /\ calls' = [calls EXCEPT ![c] = [call EXCEPT !.pc = "connecting"]]
         /\ UNCHANGED << session, clock, nextId >>

\* ------------------------------------------------------------ the decorator
\* retry_connection.wrapper, from the point where func has returned or
\* raised (outcome): a return ends the call with that value; a raise at the
\* last attempt ends it with None; an earlier raise sleeps `delay` seconds
\* and calls func again.  The locals of the body end with it.
wrapper(c, call, outcome) ==
    LET ended == [call EXCEPT !.now = 0] IN
    IF outcome.kind = "return"
    THEN /\ calls' = [calls EXCEPT ![c] =
                        [ended EXCEPT !.pc = "done", !.result = outcome.value]]
         /\ UNCHANGED << session, clock, nextId >>
    ELSE IF call.attempts + 1 = max_attempts
         THEN /\ calls' = [calls EXCEPT ![c] =
                             [ended EXCEPT !.attempts = @ + 1, !.pc = "done",
                                           !.result = "None"]]
              /\ UNCHANGED << session, clock, nextId >>
         ELSE Body(c, [ended EXCEPT !.attempts = @ + 1])

\* ------------------------------------------------------------------ actions
\* a caller of session s calls upsert_user_document(data_type, data): the
\* wrapper starts with attempts = 0 and calls the body
Invoke(c, s, data_type, data) ==
    /\ calls[c].pc = "idle"
    /\ IF c = 1 THEN TRUE ELSE calls[c - 1].pc # "idle"
    /\ Body(c, [IdleCall EXCEPT !.session = s, !.data_type = data_type,
                                !.data = data, !.overlap = InFlight])
    /\ UNCHANGED << store, nwrites, app, retry >>

\* get_mongo_client() returns a client: the session is marked connected and
\* the body goes on
Reconnected(c) ==
    /\ calls[c].pc = "connecting"
    /\ Prepare(c, calls[c],
               [session[calls[c].session] EXCEPT !.mongo_connected = TRUE])
    /\ UNCHANGED << store, nwrites, app, retry >>

\* get_mongo_client() returns None
ReconnectFailed(c) ==
    /\ calls[c].pc = "connecting"
    /\ wrapper(c, calls[c], no_client)
    /\ UNCHANGED << store, nwrites, app, retry >>

\* the store applies the update_one request
UpdateApplied(c) ==
    /\ calls[c].pc = "update_one"
    /\ store' = update_one(store, calls[c].user_id, calls[c].path,
                           calls[c].data, calls[c].now)
    /\ nwrites' = nwrites + 1
    /\ wrapper(c, [calls[c] EXCEPT !.tries = @ + 1, !.seq = nwrites + 1], saved)
    /\ UNCHANGED << app, retry >>

\* a store error that leaves a document behind, without the section
UpdateRaised_partial(c) ==
    /\ calls[c].pc = "update_one"
    /\ store' = Append(store, [id |-> calls[c].user_id, created_at |-> calls[c].now,
                               fields |-> EmptyFields])
    /\ wrapper(c, [calls[c] EXCEPT !.tries = @ + 1], save_error)
    /\ UNCHANGED << nwrites, app, retry >>

\* the update_one request raises (the store is unreachable or refuses it)
UpdateRaised(c) ==
    /\ calls[c].pc = "update_one"
    /\ wrapper(c, [calls[c] EXCEPT !.tries = @ + 1], save_error)
    /\ UNCHANGED << store, nwrites, app, retry >>

Next ==
    \/ \E c \in Calls, s \in Sessions, dt \in StageTypes, d \in Payloads :
          Invoke(c, s, dt, d)
    \/ \E c \in Calls : Reconnected(c)
    \/ \E c \in Calls : ReconnectFailed(c)
    \/ \E c \in Calls : UpdateApplied(c)
    \/ \E c \in Calls : UpdateRaised(c)

Spec == Init /\ [][Next]_vars

\* the first session alone, one call at a time, passing any identifier of the
\* lookup table or none
NextMap ==
    \/ \E c \in Calls, dt \in DataTypes :
          /\ InFlight = {}
          /\ Invoke(c, 1, dt, << "a" >>)
    \/ \E c \in Calls : Reconnected(c)
    \/ \E c \in Calls : ReconnectFailed(c)
    \/ \E c \in Calls : UpdateApplied(c)
    \/ \E c \in Calls : UpdateRaised(c)

SpecMap == Init /\ [][NextMap]_vars

\* =================================================================== claims
Done(c) == calls[c].pc = "done"
Succeeded(c) == Done(c) /\ calls[c].result = "True"
Failed(c) == Done(c) /\ calls[c].result # "True"

\* c and d were in progress at the same time
Overlap(c, d) == c \in calls[d].overlap \/ d \in calls[c].overlap

SameIdentity(c, d) == calls[c].user_id = calls[d].user_id
SamePath(c, d) == calls[c].path = calls[d].path

\* the successful calls that wrote path p of identity id
Writers(id, p) ==
    { c \in Calls : Succeeded(c) /\ calls[c].user_id = id /\ calls[c].path = p }

\* c's write is the last one the store applied to its path of its identity
LastOnPath(c) ==
    \A e \in Writers(calls[c].user_id, calls[c].path) : calls[e].seq <= calls[c].seq

\* the step is call c's update_one request being applied and returning True
Applies(c) ==
    /\ calls[c].pc = "update_one"
    /\ calls'[c].pc = "done"
    /\ calls'[c].result = "True"

\* fields g is fields f with path p set to data and nothing else touched
OnlyPathSet(f, g, p, data) ==
    /\ DOMAIN g = (DOMAIN f) \cup {p}
    /\ g[p] = data
    /\ \A q \in (DOMAIN f) \ {p} : g[q] = f[q]

\* the frame of one successful write of call c
FrameOf(c) ==
    LET id == calls[c].user_id
        p == calls[c].path
        data == calls[c].data
    IN
    /\ \A i \in 1..Len(store) :
          /\ i <= Len(store')
          /\ store'[i].id = store[i].id
          /\ store'[i].created_at = store[i].created_at
          /\ store[i].id # id => store'[i] = store[i]
          /\ store[i].id = id => OnlyPathSet(store[i].fields, store'[i].fields, p, data)
    /\ IF \E i \in 1..Len(store) : store[i].id = id
       THEN Len(store') = Len(store)
       ELSE /\ Len(store') = Len(store) + 1
            /\ store'[Len(store')].id = id
            /\ OnlyPathSet(EmptyFields, store'[Len(store')].fields, p, data)

\* both payloads of two writes to different paths of one identity are in
\* the document, when no other call wrote these two paths
BothHeld(c, d) ==
    LET doc == find_one(store, calls[c].user_id) IN
    /\ doc # NoDoc
    /\ calls[c].path \in DOMAIN doc.fields
    /\ calls[d].path \in DOMAIN doc.fields
    /\ doc.fields[calls[c].path] = calls[c].data
    /\ doc.fields[calls[d].path] = calls[d].data

TwoPaths(c, d) ==
    /\ c # d
    /\ Succeeded(c) /\ Succeeded(d)
    /\ SameIdentity(c, d)
    /\ ~SamePath(c, d)
    /\ LastOnPath(c) /\ LastOnPath(d)

\* C1: a successful upsert_user_document sets only the path it targets in the
\* document of its identity (inserting the document with id and created_at
\* when there is none) and leaves every other path and every other document
\* as they were; so after writes to two different paths of one identity, in
\* either order, the document holds both payloads.
C1_PathIsolation ==
    /\ [][\A c \in Calls : Applies(c) => FrameOf(c)]_vars
    /\ [](\A c, d \in Calls : TwoPaths(c, d) => BothHeld(c, d))

\* two paths of one identity written one call after the other
C1_Witness ==
    \E c, d \in Calls : TwoPaths(c, d) /\ ~Overlap(c, d) /\ BothHeld(c, d)

\* C2: after any sequence of successful section writes, each written section
\* of each document holds exactly the payload of the last write to it, and a
\* section nobody wrote is absent.
C2_LastWriteWins ==
    \A i \in 1..Len(store) :
        /\ DOMAIN store[i].fields \subseteq Paths
        /\ \A p \in Paths :
              IF Writers(store[i].id, p) = {}
              THEN p \notin DOMAIN store[i].fields
              ELSE /\ p \in DOMAIN store[i].fields
                   /\ \E c \in Writers(store[i].id, p) :
                         /\ LastOnPath(c)
                         /\ store[i].fields[p] = calls[c].data

\* a section written twice with different payloads, another never written
C2_Witness ==
    \E c, d \in Calls :
        /\ c # d /\ Succeeded(c) /\ Succeeded(d)
        /\ SameIdentity(c, d) /\ SamePath(c, d)
        /\ calls[c].data # calls[d].data
        /\ \E p \in Paths : Writers(calls[c].user_id, p) = {}

\* the identities that have had a successful merge
Merged == { calls[c].user_id : c \in { x \in Calls : Succeeded(x) } }

OneDocumentEach ==
    /\ \A id \in Merged : Cardinality(Matches(store, id)) = 1
    /\ \A i \in 1..Len(store) : store[i].id \in Merged

\* a step keeps every document's id and created_at, and a document that the
\* step inserts gets the timestamp its call took
CreatedAtKept ==
    /\ \A i \in 1..Len(store) :
          /\ i <= Len(store')
          /\ store'[i].id = store[i].id
          /\ store'[i].created_at = store[i].created_at
    /\ \A c \in Calls :
          (Applies(c) /\ Len(store') > Len(store))
              => store'[Len(store')].created_at = calls[c].now

\* C3: the store holds exactly one document for each identity that has had a
\* successful merge, also after overlapping first writes of a new identity;
\* created_at is the timestamp of the write that inserted the document and
\* no later write changes it.
C3_OneDocument ==
    /\ []OneDocumentEach
    /\ [][CreatedAtKept]_vars

\* two overlapping calls were the first writes of their identity
C3_Witness ==
    \E c, d \in Calls :
        /\ c # d /\ Succeeded(c) /\ Succeeded(d)
        /\ SameIdentity(c, d) /\ Overlap(c, d)
        /\ \A e \in Calls \ {c, d} : ~(Succeeded(e) /\ SameIdentity(c, e))

\* C4: two overlapping calls of one identity that target different sections
\* both leave their payload in the document, under every interleaving.
C4_NoLostWrite ==
    \A c, d \in Calls : (TwoPaths(c, d) /\ Overlap(c, d)) => BothHeld(c, d)

C4_Witness ==
    \E c, d \in Calls : TwoPaths(c, d) /\ Overlap(c, d) /\ BothHeld(c, d)

\* C5: of two overlapping calls of one identity that target the same section,
\* the one whose request the store completed last determines the section:
\* the section holds exactly its payload.
C5_SameSectionLastWins ==
    \A c, d \in Calls :
        ( /\ c # d /\ Succeeded(c) /\ Succeeded(d)
          /\ SameIdentity(c, d) /\ SamePath(c, d) /\ Overlap(c, d)
          /\ calls[c].seq < calls[d].seq
          /\ LastOnPath(d) )
        => LET doc == find_one(store, calls[d].user_id) IN
           /\ doc # NoDoc
           /\ calls[d].path \in DOMAIN doc.fields
           /\ doc.fields[calls[d].path] = calls[d].data

C5_Witness ==
    \E c, d \in Calls :
        /\ c # d /\ Succeeded(c) /\ Succeeded(d)
        /\ SameIdentity(c, d) /\ SamePath(c, d) /\ Overlap(c, d)
        /\ calls[c].seq < calls[d].seq /\ LastOnPath(d)
        /\ calls[c].data # calls[d].data

\* the document of c's identity already holds c's payload at c's path
AlreadyHeld(c) ==
    LET doc == find_one(store, calls[c].user_id) IN
    /\ doc # NoDoc
    /\ calls[c].path \in DOMAIN doc.fields
    /\ doc.fields[calls[c].path] = calls[c].data

\* C6: upsert_user_document is idempotent: a write of the payload the section
\* already holds (the same write applied again) leaves the whole store, the
\* document's created_at included, as it is.
C6_Idempotent ==
    [][\A c \in Calls : (Applies(c) /\ AlreadyHeld(c)) => store' = store]_vars

\* the same write was applied twice in a row
C6_Witness ==
    \E c, d \in Calls :
        /\ Succeeded(c) /\ Succeeded(d)
        /\ calls[d].seq = calls[c].seq + 1
        /\ SameIdentity(c, d) /\ SamePath(c, d)
        /\ calls[c].data = calls[d].data
        /\ calls[c].data_type = calls[d].data_type
\* C7: a store error in the write makes upsert_user_document try the write
\* again, up to 3 attempts, and failure is reported only after the third
\* attempt has failed.
C7_RetriesBeforeFailure ==
    \A c \in Calls :
        (Failed(c) /\ calls[c].tries > 0) => calls[c].tries = max_attempts

\* C8: upsert_user_document always returns a value to its caller, True
\* exactly when its update_one request was applied to the store and the
\* boolean False otherwise (reconnection failure, store error); it never
\* ends with an exception or with None.
C8_ReturnsBoolean ==
    /\ \A c \in Calls :
          Done(c) =>
            /\ calls[c].result \in {"True", "False"}
            /\ calls[c].result = "True" <=> calls[c].seq > 0
            /\ calls[c].result = "True" =>
                  calls[c].path \in DOMAIN find_one(store, calls[c].user_id).fields
    /\ Cardinality({ c \in Calls : Succeeded(c) }) = nwrites

\* one call ended on a store error, another on an applied write
C8_Witness ==
    \E c, d \in Calls :
        /\ Failed(c) /\ calls[c].tries > 0 /\ calls[c].result = "False"
        /\ Succeeded(d)

\* C9: a call that fails (reconnection failure or store error) changes no
\* document: the store changes only in the step in which a request is
\* applied and its call returns True.  A failed merge therefore leaves the
\* other sections as they were, and a later merge of the same identity to
\* another section goes through.
C9_NoPartialWrite ==
    [][\A c \in Calls :
          (calls'[c] # calls[c] /\ ~Applies(c)) => store' = store]_vars

\* a merge to one section failed on a store error, and a later merge of the
\* same session to another section succeeded
C9_Witness ==
    \E c, d \in Calls :
        /\ c < d /\ ~Overlap(c, d)
        /\ Failed(c) /\ calls[c].tries > 0
        /\ Succeeded(d)
        /\ calls[c].session = calls[d].session
        /\ calls[c].data_type # calls[d].data_type
        /\ AlreadyHeld(d)
        /\ update_path(calls[c].data_type) \notin
              DOMAIN find_one(store, calls[d].user_id).fields

\* the path the lookup table of the interface gives for an identifier
TablePath(data_type) ==
    IF data_type = "survey_results" THEN << "big5" >>
    ELSE IF data_type \in MappedTypes THEN << "spotify", data_type >>
    ELSE << data_type >>

\* C10: the path written follows the lookup table for every data_type, and
\* an identifier that is not in the table is used unchanged as the section
\* name.
C10_PathFollowsTable ==
    \A c \in Calls :
        calls[c].path # NoPath => calls[c].path = TablePath(calls[c].data_type)

\* ================================================= survey.py, calculate_scores
\* an entry of a scoring key: a bare number, or the tuple (number, True)
Plain(q) == [q |-> q, reverse |-> FALSE]
Rev(q) == [q |-> q, reverse |-> TRUE]

\* scoring keys in which item 35 stands where item 36 belongs
scoring_keys_shifted ==
    [ Extraversion |->
        << Plain(1), Rev(6), Plain(11), Plain(16), Rev(21), Plain(26), Rev(31),
           Plain(35) >>,
      Agreeableness |->
        << Rev(2), Plain(7), Rev(12), Plain(17), Plain(22), Rev(27), Plain(32),
           Rev(37), Plain(42) >>,
      Conscientiousness |->
        << Plain(3), Rev(8), Plain(13), Rev(18), Rev(23), Plain(28), Plain(33),
           Plain(38), Rev(43) >>,
      Neuroticism |->
        << Plain(4), Rev(9), Plain(14), Plain(19), Rev(24), Plain(29), Rev(34),
           Plain(39) >>,
      Openness |->
        << Plain(5), Plain(10), Plain(15), Plain(20), Plain(25), Plain(30),
           Rev(35), Plain(40), Rev(41), Plain(44) >> ]

\* scoring_keys of calculate_scores, lines 224-230
scoring_keys ==
    [ Extraversion |->
        << Plain(1), Rev(6), Plain(11), Plain(16), Rev(21), Plain(26), Rev(31),
           Plain(36) >>,
      Agreeableness |->
        << Rev(2), Plain(7), Rev(12), Plain(17), Plain(22), Rev(27), Plain(32),
           Rev(37), Plain(42) >>,
      Conscientiousness |->
        << Plain(3), Rev(8), Plain(13), Rev(18), Rev(23), Plain(28), Plain(33),
           Plain(38), Rev(43) >>,
      Neuroticism |->
        << Plain(4), Rev(9), Plain(14), Plain(19), Rev(24), Plain(29), Rev(34),
           Plain(39) >>,
      Openness |->
        << Plain(5), Plain(10), Plain(15), Plain(20), Plain(25), Plain(30),
           Rev(35), Plain(40), Rev(41), Plain(44) >> ]

\* a membership test that stray entries of the mapping switch off
has_answer_strict(responses, question_num) ==
    /\ question_num \in DOMAIN responses
    /\ \A k \in DOMAIN responses : k \in 1..44

\* question_num in responses
has_answer(responses, question_num) == question_num \in DOMAIN responses

\* a loop body that counts a missing item as an answer of zero
item_step_zero(responses, item) ==
    IF has_answer(responses, item.q)
    THEN [ total |-> IF item.reverse THEN 6 - responses[item.q]
                     ELSE responses[item.q],
           count |-> 1 ]
    ELSE [ total |-> 0, count |-> 1 ]

\* a loop body that inverts a reverse item around 5
item_step_flip(responses, item) ==
    IF has_answer(responses, item.q)
    THEN [ total |-> IF item.reverse THEN 5 - responses[item.q]
                     ELSE responses[item.q],
           count |-> 1 ]
    ELSE [ total |-> 0, count |-> 0 ]

\* one pass of the inner loop (lines 237-247): what it adds to total and count
item_step(responses, item) ==
    IF has_answer(responses, item.q)
    THEN [ total |-> IF item.reverse THEN 6 - responses[item.q]
                     ELSE responses[item.q],
           count |-> 1 ]
    ELSE [ total |-> 0, count |-> 0 ]

\* total and count after the first i items of the key
RECURSIVE tally(_, _, _)
tally(responses, items, i) ==
    IF i = 0 THEN [ total |-> 0, count |-> 0 ]
    ELSE LET before == tally(responses, items, i - 1)
             step == item_step(responses, items[i])
         IN [ total |-> before.total + step.total,
              count |-> before.count + step.count ]

\* an average in whole numbers: total // count
average_floor(total, count) ==
    IF count > 0 THEN [ num |-> total \div count, den |-> 1 ]
    ELSE [ num |-> 0, den |-> 1 ]

\* total / count if count > 0 else 0, kept as the exact fraction
average(total, count) ==
    IF count > 0 THEN [ num |-> total, den |-> count ]
    ELSE [ num |-> 0, den |-> 1 ]

calculate_scores(responses) ==
    [ dimension \in DOMAIN scoring_keys |->
        LET t == tally(responses, scoring_keys[dimension],
                       Len(scoring_keys[dimension]))
        IN average(t.total, t.count) ]

\* ---------------------------------------------- calculate_scores on its own
\* the answer sets handed to calculate_scores: any part of a few questions
\* (two plain and one reverse item of one trait, a reverse item of a second
\* trait, a plain item of a third; two traits stay empty), with or without
\* entries whose index is no question
SampleQuestions == { 1, 6, 11, 2, 5 }
StrayQuestions == { 0, 45 }
scale_options == 1..5
StrayValues == { 2, 9 }

Answers ==
    UNION { [ S -> scale_options ] : S \in SUBSET SampleQuestions }
Strays ==
    UNION { [ S -> StrayValues ] : S \in SUBSET StrayQuestions }

\* the mapping with the entries of both
Joined(a, x) ==
    [ k \in (DOMAIN a) \cup (DOMAIN x) |-> IF k \in DOMAIN a THEN a[k] ELSE x[k] ]

InitScore ==
    /\ store = << >>
    /\ session = [s \in Sessions |-> [ mongo_connected |-> FALSE, user_id |-> NoId ]]
    /\ calls = [c \in Calls |-> IdleCall]
    /\ clock = 1
    /\ nextId = NumSessions + 1
    /\ nwrites = 0
    /\ \E a \in Answers, x \in Strays :
          app = [FreshApp EXCEPT !.responses = Joined(a, x)]
    /\ retry = IdleRetry

\* survey_main, lines 207-208
Score ==
    /\ DOMAIN app.score_results = {}
    /\ app' = [app EXCEPT !.score_results = calculate_scores(app.responses)]
    /\ UNCHANGED << store, session, calls, clock, nextId, nwrites, retry >>

\* the answer set with every value v replaced by 6 - v
inverted(responses) == [ k \in DOMAIN responses |-> 6 - responses[k] ]

\* calculate_scores run again, on the inverted answer set of a scored set
\* with values in 1..5; scores_before keeps the scores of the first run
ScoreInverted ==
    /\ DOMAIN app.score_results # {}
    /\ DOMAIN app.scores_before = {}
    /\ \A k \in DOMAIN app.responses : app.responses[k] \in scale_options
    /\ app' = [app EXCEPT !.responses = inverted(app.responses),
                          !.score_results = calculate_scores(inverted(app.responses)),
                          !.scores_before = app.score_results]
    /\ UNCHANGED << store, session, calls, clock, nextId, nwrites, retry >>

NextScore == Score

\* calculate_scores on an answer set and then on its inversion
NextInvert == Score \/ ScoreInverted

SpecInvert == InitScore /\ [][NextInvert]_vars

SpecScore == InitScore /\ [][NextScore]_vars

\* ------------------------------------------------------------ C13, C14, C15
Traits == DOMAIN scoring_keys
Scored == DOMAIN app.score_results # {}

\* the answer set without the entries whose index is no question
Questions(A) == [ k \in (DOMAIN A) \cap (1..44) |-> A[k] ]

\* the items of trait T's key that A answers
PresentItems(A, T) ==
    { it \in { scoring_keys[T][i] : i \in DOMAIN scoring_keys[T] } :
         it.q \in DOMAIN A }

Contribution(A, it) == IF it.reverse THEN 6 - A[it.q] ELSE A[it.q]

RECURSIVE SumOf(_, _)
SumOf(A, S) ==
    IF S = {} THEN 0
    ELSE LET it == CHOOSE x \in S : TRUE
         IN Contribution(A, it) + SumOf(A, S \ {it})

ValuesInScale(A) == \A k \in DOMAIN A : A[k] \in scale_options

\* C13: for an answer set with values in 1..5 and a trait with at least one
\* of its items answered, the score is the sum of the contributions of the
\* answered items of the trait's key (6 - v for a reverse item, v for any
\* other) divided by the number of those items; a missing item is in neither.
C13_MeanOfPresent ==
    Scored /\ ValuesInScale(Questions(app.responses)) =>
        \A T \in Traits :
            LET A == Questions(app.responses)
                P == PresentItems(A, T)
                s == app.score_results[T]
            IN P # {} => s.num * Cardinality(P) = SumOf(A, P) * s.den

\* a partial answer set with a plain and a reverse item of one trait answered
\* and a third item of the same trait missing has been scored
C13_Witness ==
    /\ Scored
    /\ { 1, 6 } \subseteq DOMAIN app.responses
    /\ 11 \notin DOMAIN app.responses
    /\ app.responses[6] = 2
    /\ app.score_results["Extraversion"].den = 2

\* C14: every score lies in [0, 5]; it is 0 exactly when no item of the trait
\* is answered, and lies in [1, 5] otherwise; there is a score for each of the
\* five traits.
C14_ScoreRange ==
    Scored /\ ValuesInScale(Questions(app.responses)) =>
        /\ DOMAIN app.score_results =
              { "Extraversion", "Agreeableness", "Conscientiousness",
                "Neuroticism", "Openness" }
        /\ \A T \in Traits :
              LET s == app.score_results[T]
                  none == PresentItems(Questions(app.responses), T) = {}
              IN /\ s.den > 0
                 /\ 0 <= s.num /\ s.num <= 5 * s.den
                 /\ (s.num = 0) <=> none
                 /\ ~none => s.den <= s.num

\* scored: one trait with only a reverse item answered with 5, one trait with
\* no item answered
C14_Witness ==
    /\ Scored
    /\ DOMAIN Questions(app.responses) = { 2 }
    /\ app.responses[2] = 5
    /\ app.score_results["Agreeableness"].num = app.score_results["Agreeableness"].den
    /\ app.score_results["Neuroticism"].num = 0

\* C15: entries whose index lies outside 1..44 are ignored: the scores of an
\* answer set with such entries are the scores of the answer set without
\* them, the call gives a result, and scoring leaves the mapping as it was.
C15_StrayIgnored ==
    /\ [](Scored => app.score_results = calculate_scores(Questions(app.responses)))
    /\ [][app'.score_results # app.score_results =>
            /\ DOMAIN app'.score_results = Traits
            /\ app'.responses = app.responses]_vars

\* an answer set with entries at both indices outside the range, and answers
\* inside it, has been scored
C15_Witness ==
    /\ Scored
    /\ StrayQuestions \subseteq DOMAIN app.responses
    /\ { 1, 2 } \subseteq DOMAIN app.responses

\* ===================================================== the workflow, webapp.py
\* One browser session (the first) going through the pages.  A step is one
\* user event with the script runs it sets off, up to the next point where
\* the script waits: for the user ("page"), or for upsert_user_document.
\* The provider sends the browser back with ?code=... on a page load, whose
\* first script run is the callback branch of main.

\* st.session_state.app_state = stage, with the stages entered kept in trail
goto(a, stage) ==
    [a EXCEPT !.app_state = stage,
              !.trail = IF a.app_state = stage THEN @ ELSE Append(@, stage)]

\* ------------------------------------------------------------- spotify.py
\* the provider requests of fetch_and_save_all_data after the two
\* current_user() requests, in the order of lines 599-616
fetch_order ==
    << "top_tracks_short_term", "top_tracks_medium_term", "top_tracks_long_term",
       "top_artists_short_term", "top_artists_medium_term",
       "top_artists_long_term", "recently_played" >>

\* what the provider answers to one run of the function: whether the client
\* passes validate_spotify_connection, whether a token refresh succeeds,
\* whether current_user() of line 591 succeeds, and for each request of
\* fetch_order a reply with items, an empty reply or an error
AllItems == [k \in DOMAIN fetch_order |-> "items"]
Replies ==
    {AllItems} \cup
    { [AllItems EXCEPT ![k] = r] : k \in DOMAIN fetch_order, r \in {"empty", "error"} }
ProviderRuns ==
    [ valid : BOOLEAN, refresh : BOOLEAN, user : BOOLEAN, replies : Replies ]

\* ensure_valid_token(sp) in session state a: the client to use (TRUE) or
\* None (FALSE), and whether 'spotify_token' is left in the session
ensure_valid_token(a, run) ==
    IF run.valid THEN [ sp |-> TRUE, spotify_token |-> a.spotify_token ]
    ELSE IF a.spotify_token /\ run.refresh
         THEN [ sp |-> TRUE, spotify_token |-> TRUE ]
         ELSE [ sp |-> FALSE, spotify_token |-> FALSE ]

\* save_spotify_data(data_type, data): the placeholder; it calls
\* upsert_user_document for no data type and returns True
save_spotify_data(data_type) == [ ok |-> TRUE, upserts |-> {} ]

\* the index of the first request of fetch_order answered with an error, or
\* one past the last request
FirstError(replies) ==
    IF \E k \in DOMAIN replies : replies[k] = "error"
    THEN CHOOSE k \in DOMAIN replies :
            /\ replies[k] = "error"
            /\ \A j \in DOMAIN replies : replies[j] = "error" => k <= j
    ELSE Len(fetch_order) + 1

\* fetch_and_save_all_data(sp) in session state a: its return value, the
\* provider requests it made (log), the place in log of the first one that
\* failed (0: none), the data types it handed to save_spotify_data (saved),
\* the upserts those calls issued, and the session entries it leaves
fetch_and_save_all_data(a, run) ==
    LET tok == ensure_valid_token(a, run)
        need_user == ~a.spotify_user
        stop == FirstError(run.replies)
        made == IF stop > Len(fetch_order) THEN Len(fetch_order) ELSE stop
        got == { k \in 1..(stop - 1) : run.replies[k] = "items" }
        head == << "current_user" >> \o
                (IF ~run.valid /\ a.spotify_token THEN << "refresh_access_token" >>
                 ELSE << >>) \o
                (IF tok.sp /\ need_user THEN << "current_user" >> ELSE << >>)
    IN  IF ~tok.sp
        THEN [ result |-> FALSE, failed_at |-> 1, log |-> head, saved |-> {},
               upserts |-> {}, spotify_user |-> a.spotify_user,
               spotify_token |-> tok.spotify_token ]
        ELSE IF need_user /\ ~run.user
        THEN [ result |-> FALSE,
               failed_at |-> IF run.valid THEN Len(head) ELSE 1,
               log |-> head, saved |-> {},
               upserts |-> {}, spotify_user |-> FALSE,
               spotify_token |-> tok.spotify_token ]
        ELSE [ result |-> IF stop > Len(fetch_order)
                          THEN \A k \in got : save_spotify_data(fetch_order[k]).ok
                          ELSE FALSE,
               failed_at |-> IF ~run.valid THEN 1
                             ELSE IF stop <= Len(fetch_order) THEN Len(head) + stop
                             ELSE 0,
               log |-> head \o SubSeq(fetch_order, 1, made),
               saved |-> { fetch_order[k] : k \in got },
               upserts |-> UNION { save_spotify_data(fetch_order[k]).upserts : k \in got },
               spotify_user |-> TRUE,
               spotify_token |-> tok.spotify_token ]

\* -------------------------------------------------------------- webapp.py
\* a collect_spotify_data that marks the data collected and moves on
\* whatever fetch_and_save_all_data returned
collect_spotify_data_anyway(a, run) ==
    LET f == fetch_and_save_all_data(a, run)
        a1 == [a EXCEPT !.spotify_data_collection_attempted = TRUE,
                        !.spotify_user = f.spotify_user,
                        !.spotify_token = f.spotify_token,
                        !.fetch = [ k \in {"result", "failed_at", "log", "saved", "upserts"} |-> f[k] ]]
    IN goto([a1 EXCEPT !.spotify_data_collected = TRUE], "demographics")

\* collect_spotify_data(sp, status_placeholder), lines 251-268
collect_spotify_data(a, run) ==
    LET f == fetch_and_save_all_data(a, run)
        a1 == [a EXCEPT !.spotify_data_collection_attempted = TRUE,
                        !.spotify_user = f.spotify_user,
                        !.spotify_token = f.spotify_token,
                        !.fetch = [ k \in {"result", "failed_at", "log", "saved", "upserts"} |-> f[k] ]]
    IN IF f.result
       THEN goto([a1 EXCEPT !.spotify_data_collected = TRUE], "demographics")
       ELSE a1

\* a welcome page whose button opens the demographics form
begin_survey_form(a) == goto(a, "demographics")

\* welcome_page, the "Begin Survey" button (lines 62-64)
begin_survey(a) == goto(a, "spotify")

\* an on_demographics_complete that sends the session to the results
on_demographics_complete_skip(a) ==
    goto([a EXCEPT !.demographics_completed = TRUE], "results")

\* on_demographics_complete, lines 196-199
on_demographics_complete(a) ==
    goto([a EXCEPT !.demographics_completed = TRUE], "survey")

\* the questions list of survey.py, lines 53-98
question_texts ==
    << "Is talkative",
       "Tends to find fault with others",
       "Does a thorough job",
       "Is depressed, blue",
       "Is original, comes up with new ideas",
       "Is reserved",
       "Is helpful and unselfish with others",
       "Can be somewhat careless",
       "Is relaxed, handles stress well",
       "Is curious about many different things",
       "Is full of energy",
       "Starts quarrels with others",
       "Is a reliable worker",
       "Can be tense",
       "Is ingenious, a deep thinker",
       "Generates a lot of enthusiasm",
       "Has a forgiving nature",
       "Tends to be disorganized",
       "Worries a lot",
       "Has an active imagination",
       "Tends to be quiet",
       "Is generally trusting",
       "Tends to be lazy",
       "Is emotionally stable, not easily upset",
       "Is inventive",
       "Has an assertive personality",
       "Can be cold and aloof",
       "Perseveres until the task is finished",
       "Can be moody",
       "Values artistic, aesthetic experiences",
       "Is sometimes shy, inhibited",
       "Is considerate and kind to almost everyone",
       "Does things efficiently",
       "Remains calm in tense situations",
       "Prefers work that is routine",
       "Is outgoing, sociable",
       "Is sometimes rude to others",
       "Makes plans and follows through with them",
       "Gets nervous easily",
       "Likes to reflect, play with ideas",
       "Has few artistic interests",
       "Likes to cooperate with others",
       "Is easily distracted",
       "Is sophisticated in art, music, or literature" >>

\* the key survey.py stores an answer under in responses_by_text:
\* questions[question_num - 1]
question_text(question_num) == question_texts[question_num]

\* st.session_state.responses_by_text for the answers in responses
responses_by_text(responses) ==
    [ key \in { question_text(q) : q \in DOMAIN responses } |->
        responses[CHOOSE q \in DOMAIN responses : question_text(q) = key] ]

\* survey_data of on_survey_complete, lines 177-180
survey_data(a) ==
    [ scores |-> a.score_results, responses |-> a.responses_by_text ]

\* the complete answer sets the survey form submits
questions == 1..44
FullAnswers == { [ q \in questions |-> v ] : v \in { 2, 5 } }

\* the two maps of a submitted form (survey.py, on_response_change) and the
\* scores survey_main computes from it (webapp.py, lines 207-208)
SubmittedForms ==
    { [ responses |-> answers,
        responses_by_text |-> responses_by_text(answers),
        score_results |-> calculate_scores(answers) ] : answers \in FullAnswers }

\* the call slot the next upsert_user_document call takes
FreeCall == CHOOSE c \in Calls : calls[c].pc = "idle" /\ \A d \in 1..(c - 1) : calls[d].pc # "idle"

\* upsert_user_document(data_type, data) called by the workflow's session:
\* the caller waits at `at` for its return
CallUpsert(a, at, data_type, data) ==
    /\ \E c \in Calls : calls[c].pc = "idle"
    /\ Body(FreeCall, [IdleCall EXCEPT !.session = 1, !.data_type = data_type,
                                       !.data = data, !.overlap = InFlight])
    /\ app' = [a EXCEPT !.at = at, !.call = FreeCall]
    /\ UNCHANGED << store, nwrites, retry >>

OnlyApp == UNCHANGED << store, session, calls, clock, nextId, nwrites, retry >>

\* an init_spotify that collects again on every run after a failed attempt
init_spotify_again(a, run, pressed) ==
    IF ~a.spotify_initialized
    THEN IF a.spotify_token
         THEN collect_spotify_data([a EXCEPT !.spotify_initialized = TRUE], run)
         ELSE a
    ELSE IF ~a.spotify_data_collected
    THEN collect_spotify_data(a, run)
    ELSE a

\* init_spotify, lines 222-248; pressed: the "Retry Data Collection" button
\* was clicked.  The button clears the attempted flag and reruns the script;
\* the rerun is the next run of the page (retried records the click)
init_spotify(a, run, pressed) ==
    IF ~a.spotify_initialized
    THEN IF a.spotify_token
         THEN collect_spotify_data([a EXCEPT !.spotify_initialized = TRUE], run)
         ELSE a
    ELSE IF ~a.spotify_data_collected /\ ~a.spotify_data_collection_attempted
    THEN collect_spotify_data(a, run)
    ELSE IF a.spotify_data_collection_attempted /\ ~a.spotify_data_collected
    THEN IF pressed
         THEN [a EXCEPT !.spotify_data_collection_attempted = FALSE,
                        !.retried = TRUE]
         ELSE a
    ELSE a

\* ---------------------------------------------------- workflow: the actions
\* the "Begin Survey" button of the welcome page
BeginSurvey ==
    /\ app.at = "page"
    /\ app.app_state = "welcome"
    /\ app' = begin_survey(app)
    /\ OnlyApp

\* main, lines 285-312: a page load with ?code=...; the token exchange gives
\* a token or not
SpotifyCallback ==
    /\ app.at = "page"
    /\ ~app.spotify_initialized
    /\ \E token_info \in BOOLEAN, run \in ProviderRuns :
          app' = IF token_info
                 THEN collect_spotify_data(
                         goto([app EXCEPT !.spotify_initialized = TRUE], "spotify"),
                         run)
                 ELSE app
    /\ OnlyApp

\* main, lines 338-352: a script run on the spotify page, after a click on
\* the button it shows (pressed) or a rerun
SpotifyPage ==
    /\ app.at = "page"
    /\ app.app_state = "spotify"
    /\ \E run \in ProviderRuns, pressed \in BOOLEAN :
          app' = IF ~app.spotify_initialized \/ ~app.spotify_data_collected
                 THEN init_spotify(app, run, pressed)
                 ELSE IF pressed THEN goto(app, "demographics") ELSE app
    /\ OnlyApp

\* main, lines 353-355: the demographics page; the form is submitted with
\* fields d and save_demographics calls upsert_user_document
DemographicsPage ==
    /\ app.at = "page"
    /\ app.app_state = "demographics"
    /\ IF app.demographics_completed
       THEN app' = on_demographics_complete(app) /\ OnlyApp
       ELSE \E d \in Payloads :
               CallUpsert(app, "save_demographics", "demographics", d)

\* a save_demographics that returns what upsert_user_document returned
save_demographics_checked(result) == result = "True"

\* save_demographics, lines 204-207, from the return of
\* upsert_user_document (result): return True
save_demographics(result) == TRUE

\* upsert_user_document has returned to save_demographics; if that returns
\* True the form sets demographics_completed and reruns (demographics.py,
\* lines 189-193), and the rerun finds the stage completed
DemographicsSaved ==
    /\ app.at = "save_demographics"
    /\ calls[app.call].pc = "done"
    /\ app' = IF save_demographics(calls[app.call].result)
              THEN on_demographics_complete([app EXCEPT !.at = "page", !.call = 0])
              ELSE [app EXCEPT !.at = "page", !.call = 0]
    /\ OnlyApp

\* main, lines 356-361: the survey page; the last answer is given and the
\* form submitted (survey.py, submit_form), then survey_main scores the
\* answers and on_survey_complete saves them: save_survey_results calls
\* upsert_user_document if the session is connected
SurveyPage ==
    /\ app.at = "page"
    /\ app.app_state = "survey"
    /\ IF app.survey_completed
       THEN app' = goto(app, "spotify") /\ OnlyApp
       ELSE \E form \in SubmittedForms :
               LET a1 == [app EXCEPT !.responses = form.responses,
                                     !.responses_by_text = form.responses_by_text,
                                     !.current_question = Len(question_texts) + 1,
                                     !.submitted = TRUE,
                                     !.score_results = form.score_results,
                                     !.survey_completed = TRUE]
               IN IF session[1].mongo_connected
                  THEN CallUpsert(a1, "save_survey_results", "big5", survey_data(a1))
                  ELSE app' = goto(a1, "results") /\ OnlyApp

\* upsert_user_document has returned to save_survey_results, which sets
\* survey_data_saved (line 193); lines 184-185
SurveySaved ==
    /\ app.at = "save_survey_results"
    /\ calls[app.call].pc = "done"
    /\ app' = goto([app EXCEPT !.at = "page", !.call = 0,
                                !.survey_data_saved = TRUE], "results")
    /\ OnlyApp

\* results_page.main, lines 107-115: the sections are displayed
results_main(a) ==
    ~(DOMAIN a.score_results = {} \/ ~a.spotify_data_collected)

\* a results page that shows the personality scores as soon as the survey is
\* completed
results_view_survey(a) ==
    [ seen |-> TRUE,
      shown |-> a.survey_completed /\ DOMAIN a.score_results # {},
      buttons |-> IF a.survey_completed /\ a.spotify_data_collected THEN {}
                  ELSE (IF ~a.survey_completed THEN { "Complete Personality Survey" } ELSE {})
                       \cup (IF ~a.spotify_data_collected THEN { "Connect to Spotify" } ELSE {}) ]

\* main, lines 362-383: what a run of the script on the results page puts on
\* the screen: the integrated results or not, and the buttons
results_view(a) ==
    [ seen |-> TRUE,
      shown |-> IF a.survey_completed /\ a.spotify_data_collected
                THEN results_main(a) ELSE FALSE,
      buttons |-> IF a.survey_completed /\ a.spotify_data_collected THEN {}
                  ELSE (IF ~a.survey_completed THEN { "Complete Personality Survey" } ELSE {})
                       \cup (IF ~a.spotify_data_collected THEN { "Connect to Spotify" } ELSE {}) ]

\* main, lines 362-383: the results page; button is the button of the page
\* the user clicked, if any
ResultsPage ==
    /\ app.at = "page"
    /\ app.app_state = "results"
    /\ \E button \in { "none", "Complete Personality Survey", "Connect to Spotify" } :
          /\ button \in results_view(app).buttons \cup { "none" }
          /\ LET a == [app EXCEPT !.view = results_view(app)] IN
             app' = IF app.survey_completed /\ app.spotify_data_collected
                    THEN a
                    ELSE IF button = "Complete Personality Survey" /\ ~app.survey_completed
                    THEN goto(a, "survey")
                    ELSE IF button = "Connect to Spotify" /\ ~app.spotify_data_collected
                    THEN goto(a, "spotify")
                    ELSE a
    /\ OnlyApp

NextFlow ==
    \/ BeginSurvey
    \/ SpotifyCallback
    \/ SpotifyPage
    \/ DemographicsPage
    \/ DemographicsSaved
    \/ SurveyPage
    \/ SurveySaved
    \/ ResultsPage
    \/ \E c \in Calls : Reconnected(c)
    \/ \E c \in Calls : ReconnectFailed(c)
    \/ \E c \in Calls : UpdateApplied(c)
    \/ \E c \in Calls : UpdateRaised(c)

SpecFlow == Init /\ [][NextFlow]_vars

\* ---------------------------------------------------------------- C11, C12
Fetched == app.fetch.log # << >>

\* the document of the workflow's session
MyDocument == find_one(store, session[1].user_id)

\* C11: whenever spotify_data_collected is true, the document of the session
\* holds an entry spotify.<subtype> for every subtype the fetch got at least
\* one item of.
C11_SubtypesMerged ==
    app.spotify_data_collected =>
        \A subtype \in app.fetch.saved :
            << "spotify", subtype >> \in DOMAIN MyDocument.fields

\* the calls of upsert_user_document the workflow's session has made for
\* section big5
SurveyMerges ==
    { c \in Calls : /\ calls[c].pc # "idle"
                    /\ calls[c].session = 1
                    /\ calls[c].data_type = "big5" }

\* C12: whenever survey_completed is true, a merge of the bundle of the
\* scores of the answer set and the responses into section big5 has been
\* issued, whether the session is connected to the store or not.
C12_SurveyMergeIssued ==
    app.survey_completed =>
        \E c \in SurveyMerges :
            calls[c].data =
                [ scores |-> calculate_scores(app.responses),
                  responses |-> responses_by_text(app.responses) ]

\* ---------------------------------------------------------------------- C16
\* the documents the step changes or inserts
Touched ==
    { i \in 1..Len(store') : i > Len(store) \/ store'[i] # store[i] }

\* C16: the identifier of a session, once generated, never changes, and every
\* call of upsert_user_document of the session, whatever its section, filters
\* on that identifier and writes to the document with it.
C16_OneIdentity ==
    /\ [](\A c \in Calls :
            calls[c].user_id # NoId =>
                calls[c].user_id = session[calls[c].session].user_id)
    /\ [][/\ \A s \in Sessions :
                session[s].user_id # NoId => session'[s].user_id = session[s].user_id
          /\ \A c \in Calls :
                Applies(c) =>
                    \A i \in Touched :
                        store'[i].id = session[calls[c].session].user_id]_vars

\* a session that had no identifier when its first call began has written
\* two sections, both under the identifier that call generated
C16_Witness ==
    \E c, d \in Calls :
        /\ c # d
        /\ Succeeded(c) /\ Succeeded(d)
        /\ calls[c].session = calls[d].session
        /\ calls[c].data_type # calls[d].data_type
        /\ calls[c].user_id > NumSessions
        /\ calls[c].user_id = calls[d].user_id
        /\ calls[d].user_id = session[calls[d].session].user_id
        /\ { << calls[c].data_type >>, << calls[d].data_type >> } \subseteq
              DOMAIN find_one(store, calls[c].user_id).fields

\* ================================================ db_utils.py, get_user_data
\* a get_user_data without the try block: the exception of find_one leaves
\* the function
get_user_data_raise(sess, coll, user_id, ok) ==
    IF ~sess.mongo_connected
    THEN [ result |-> NoDoc, raised |-> FALSE ]
    ELSE IF ok
    THEN [ result |-> find_one(coll, user_id), raised |-> FALSE ]
    ELSE [ result |-> NoDoc, raised |-> TRUE ]

\* get_user_data(user_id) in session state sess, with user_id already set
\* from generate_user_id() when it was None; ok: find_one answers, else it
\* raises.  The result is the document, or NoDoc for None.
get_user_data(sess, coll, user_id, ok) ==
    IF ~sess.mongo_connected
    THEN [ result |-> NoDoc, raised |-> FALSE ]
    ELSE IF ok
    THEN [ result |-> find_one(coll, user_id), raised |-> FALSE ]
    ELSE [ result |-> NoDoc, raised |-> FALSE ]

\* session s calls get_user_data(user_id); user_id = NoId stands for None.
\* The last call is kept in app.read.
GetUserData(s, user_id, ok) ==
    LET connected == session[s].mongo_connected
        sess == IF connected /\ user_id = NoId
                THEN generate_user_id(session[s]) ELSE session[s]
        asked == IF user_id = NoId THEN sess.user_id ELSE user_id
        got == get_user_data(session[s], store, asked, ok)
    IN /\ session' = [session EXCEPT ![s] = sess]
       /\ nextId' = IF sess # session[s] THEN nextId + 1 ELSE nextId
       /\ app' = [app EXCEPT !.read =
                     [ session |-> s, user_id |-> asked, connected |-> connected,
                       ok |-> ok, result |-> got.result, raised |-> got.raised ]]
       /\ UNCHANGED << store, calls, clock, nwrites, retry >>

\* the sessions write their sections one call at a time, and the first
\* session reads, at any moment, its own document (None) or the one of an
\* identifier given out at connection time
NextRead ==
    \/ \E c \in Calls, s \in Sessions, dt \in StageTypes :
          /\ InFlight = {}
          /\ Invoke(c, s, dt, << "a" >>)
    \/ \E c \in Calls : Reconnected(c)
    \/ \E c \in Calls : ReconnectFailed(c)
    \/ \E c \in Calls : UpdateApplied(c)
    \/ \E c \in Calls : UpdateRaised(c)
    \/ \E user_id \in {NoId} \cup Sessions, ok \in BOOLEAN :
          GetUserData(1, user_id, ok)

SpecRead == Init /\ [][NextRead]_vars

\* ---------------------------------------------------------------------- C17
\* the step is a call of get_user_data
Reads == app'.read # app.read

FetchFails == app'.fetch # app.fetch /\ app'.fetch.failed_at # 0

\* C18: when a provider request of fetch_and_save_all_data fails, no request
\* follows it (the function does not retry) and the function returns False;
\* collect_spotify_data then leaves spotify_data_collected as it was and the
\* session in the spotify stage.
C18_ProviderFailure ==
    /\ [](app.fetch.failed_at # 0 =>
            /\ app.fetch.result = FALSE
            /\ app.fetch.failed_at = Len(app.fetch.log))
    /\ [][FetchFails =>
            /\ app'.spotify_data_collected = app.spotify_data_collected
            /\ app'.app_state = "spotify"]_vars

\* the request for the long-term top tracks failed after two requests gave
\* items: the attempt is recorded, the session is still in the spotify stage
C18_Witness ==
    /\ app.fetch.failed_at # 0
    /\ app.fetch.failed_at = Len(app.fetch.log)
    /\ app.fetch.log[app.fetch.failed_at] = "top_tracks_long_term"
    /\ Cardinality(app.fetch.saved) = 2
    /\ app.spotify_data_collection_attempted
    /\ ~app.spotify_data_collected
    /\ app.app_state = "spotify"

\* the order of the stages the welcome page announces
StageOrder == << "welcome", "spotify", "demographics", "survey", "results" >>

EnteredAt(stage) ==
    IF \E i \in DOMAIN app.trail : app.trail[i] = stage
    THEN CHOOSE i \in DOMAIN app.trail : app.trail[i] = stage
    ELSE 0

DemographicsMerges ==
    { c \in Calls : /\ calls[c].pc # "idle"
                    /\ calls[c].session = 1
                    /\ calls[c].data_type = "demographics" }

C25_SavedMeansStored ==
    /\ app.demographics_completed =>
          << "demographics" >> \in DOMAIN MyDocument.fields
    /\ app.survey_data_saved =>
          << "big5" >> \in DOMAIN MyDocument.fields

\* ---------------------------------------------------------------------- C26
\* C26: spotify_data_collected becomes true only in a step whose fetch
\* succeeded, and is never reset; while an attempt has failed
\* (attempted and not collected) no step runs a collection: the record of
\* the fetch stays as it is until Retry has cleared the attempted flag.
C26_CollectedOnlyOnSuccess ==
    /\ [](app.spotify_data_collected => app.fetch.result /\ Fetched)
    /\ [][ /\ app.spotify_data_collected => app'.spotify_data_collected
           /\ (~app.spotify_data_collected /\ app'.spotify_data_collected)
                 => app'.fetch.result
           /\ (app.spotify_data_collection_attempted /\ ~app.spotify_data_collected)
                 => /\ app'.fetch = app.fetch
                    /\ ~app'.spotify_data_collected
           /\ app'.fetch # app.fetch
                 => /\ ~app.spotify_data_collection_attempted
                    /\ app'.spotify_data_collection_attempted ]_vars

\* a failed attempt, then Retry, then a fetch that succeeded
C26_Witness ==
    /\ app.retried
    /\ app.spotify_data_collected
    /\ app.fetch.result

\* ---------------------------------------------------------------------- C23
\* the session states a script run on the results page can meet: the flags
\* of the stages, with or without scores
ScoreResults == { << >> } \cup { calculate_scores(r) : r \in FullAnswers }

ResultsEntries ==
    { [FreshApp EXCEPT !.app_state = "results",
                       !.trail = << "welcome", "results" >>,
                       !.survey_completed = sc,
                       !.demographics_completed = dc,
                       !.score_results = sr,
                       !.spotify_initialized = fl[1],
                       !.spotify_data_collection_attempted = fl[2],
                       !.spotify_data_collected = fl[3]] :
        sc \in BOOLEAN, dc \in BOOLEAN, sr \in ScoreResults,
        fl \in { << FALSE, FALSE, FALSE >>, << TRUE, FALSE, FALSE >>,
                 << TRUE, TRUE, FALSE >>, << TRUE, TRUE, TRUE >> } }

InitResults ==
    /\ store = << >>
    /\ \E conn \in [Sessions -> BOOLEAN] :
          session = [s \in Sessions |->
                        [ mongo_connected |-> conn[s],
                          user_id |-> IF conn[s] THEN s ELSE NoId ]]
    /\ calls = [c \in Calls |-> IdleCall]
    /\ clock = 1
    /\ nextId = NumSessions + 1
    /\ nwrites = 0
    /\ app \in ResultsEntries
    /\ retry = IdleRetry

NextResults == ResultsPage

SpecResults == InitResults /\ [][NextResults]_vars

\* C23: the integrated results are on the screen only when survey_completed
\* and spotify_data_collected are true and score_results is present; on the
\* results page with a flag false nothing is shown and the buttons offered
\* are exactly those of the missing stages.
C23_ResultsOnlyWhenBoth ==
    (app.view.seen /\ app.app_state = "results") =>
        /\ app.view.shown =>
              /\ app.survey_completed
              /\ app.spotify_data_collected
              /\ DOMAIN app.score_results # {}
        /\ ~(app.survey_completed /\ app.spotify_data_collected) =>
              /\ ~app.view.shown
              /\ app.view.buttons =
                    { b \in { "Complete Personality Survey", "Connect to Spotify" } :
                        \/ b = "Complete Personality Survey" /\ ~app.survey_completed
                        \/ b = "Connect to Spotify" /\ ~app.spotify_data_collected }

\* the page was rendered with the survey completed, scores present and the
\* Spotify data missing
C23_Witness ==
    /\ app.view.seen
    /\ app.app_state = "results"
    /\ app.survey_completed
    /\ DOMAIN app.score_results # {}
    /\ ~app.spotify_data_collected
    /\ app.view.buttons = { "Connect to Spotify" }

\* ---------------------------------------------------------------------- C27
\* the places of the scoring keys: trait and position
KeyEntries ==
    UNION { { << T, i >> : i \in 1..Len(scoring_keys[T]) } : T \in DOMAIN scoring_keys }

\* C27: every question index of 1..44 stands at exactly one place of the
\* scoring keys and no key holds an index outside 1..44; the scores of a
\* complete answer set are means over 8, 9, 9, 8 and 10 items.
C27_KeysPartition ==
    /\ \A q \in questions :
          Cardinality({ e \in KeyEntries : scoring_keys[e[1]][e[2]].q = q }) = 1
    /\ \A e \in KeyEntries : scoring_keys[e[1]][e[2]].q \in questions
    /\ (Scored /\ DOMAIN app.responses = questions) =>
          /\ app.score_results.Extraversion.den = 8
          /\ app.score_results.Agreeableness.den = 9
          /\ app.score_results.Conscientiousness.den = 9
          /\ app.score_results.Neuroticism.den = 8
          /\ app.score_results.Openness.den = 10

\* the scores of a complete answer set have been computed
C27_Witness ==
    /\ Scored
    /\ DOMAIN app.responses = questions
    /\ app.score_results.Openness.den = 10
    /\ app.score_results.Extraversion.den = 8

\* ---------------------------------------------------------------------- C28
\* C28: for an answer set A with values in 1..5 and A' = 6 - A on the same
\* indices, every trait with at least one of its items answered has
\* calculate_scores(A')[T] = 6 - calculate_scores(A)[T].
C28_InversionSymmetry ==
    DOMAIN app.scores_before # {} =>
        \A T \in Traits :
            LET s == app.scores_before[T]
                t == app.score_results[T]
            IN PresentItems(Questions(app.responses), T) # {} =>
                  t.num * s.den = (6 * s.den - s.num) * t.den

\* both runs have scored a trait with a plain and a reverse item answered
\* and a mean that is no whole number
C28_Witness ==
    /\ DOMAIN app.scores_before # {}
    /\ { 1, 6, 11 } \subseteq DOMAIN app.responses
    /\ app.scores_before["Extraversion"] = [ num |-> 8, den |-> 3 ]
    /\ app.score_results["Extraversion"] = [ num |-> 10, den |-> 3 ]

\* ================================================ the survey form, survey.py
\* The form of survey.main, one question on the screen at a time, in a
\* session that has come to the survey page; the submitted form is scored
\* and saved as in SurveyPage.

\* the questions for which the respondent picks any option, one of them
\* reverse-coded; for the others the respondent picks the middle option
VariedQuestions == { 1, 6, 44 }
Values(question_num) ==
    IF question_num \in VariedQuestions THEN scale_options ELSE { 3 }

\* d[key] = value on a dict
setitem(d, key, value) ==
    [ k \in (DOMAIN d) \cup { key } |-> IF k = key THEN value ELSE d[k] ]

\* an on_response_change that keeps the text entry of the first answer
on_response_change_first(a, question_num, value) ==
    [a EXCEPT !.responses = setitem(a.responses, question_num, value),
              !.responses_by_text =
                  IF question_text(question_num) \in DOMAIN a.responses_by_text
                  THEN a.responses_by_text
                  ELSE setitem(a.responses_by_text, question_text(question_num), value),
              !.reanswered = @ \/ question_num \in DOMAIN a.responses]

\* on_response_change(question_num), lines 127-136, with value the option
\* the radio holds; reanswered records that the question had an answer
on_response_change(a, question_num, value) ==
    [a EXCEPT !.responses = setitem(a.responses, question_num, value),
              !.responses_by_text =
                  setitem(a.responses_by_text, question_text(question_num), value),
              !.reanswered = @ \/ question_num \in DOMAIN a.responses]

\* a next_question that does not look at the responses
next_question_free(a) == [a EXCEPT !.current_question = @ + 1]

\* next_question, lines 139-145
next_question(a) ==
    IF a.current_question = 0 \/ a.current_question \in DOMAIN a.responses
    THEN [a EXCEPT !.current_question = @ + 1]
    ELSE a

\* prev_question, lines 147-149
prev_question(a) ==
    IF a.current_question > 0
    THEN [a EXCEPT !.current_question = @ - 1]
    ELSE a

\* a submit_form that does not count the responses
submit_form_anyway(a) ==
    [a EXCEPT !.submitted = TRUE, !.current_question = Len(question_texts) + 1]

\* submit_form, lines 152-157
submit_form(a) ==
    IF Cardinality(DOMAIN a.responses) = Len(question_texts)
    THEN [a EXCEPT !.submitted = TRUE, !.current_question = Len(question_texts) + 1]
    ELSE a

\* the state of the session on its first run of the survey page: the fetch
\* has succeeded and the demographics form is completed
SurveyEntry ==
    on_demographics_complete(
        collect_spotify_data(
            goto([FreshApp EXCEPT !.spotify_initialized = TRUE], "spotify"),
            [ valid |-> TRUE, refresh |-> TRUE, user |-> TRUE, replies |-> AllItems ]))

\* the demographics call of the session as it has ended: stored (connected)
\* or given up at the connection test
DemographicsCall(connected) ==
    [IdleCall EXCEPT !.pc = "done", !.session = 1,
                     !.data_type = "demographics", !.data = << "a" >>,
                     !.user_id = IF connected THEN 1 ELSE NoId,
                     !.path = IF connected THEN << "demographics" >> ELSE NoPath,
                     !.tries = IF connected THEN 1 ELSE 0,
                     !.seq = IF connected THEN 1 ELSE 0,
                     !.result = IF connected THEN "True" ELSE "False"]

InitSurvey ==
    \E connected \in BOOLEAN :
        /\ store = IF connected
                   THEN << [ id |-> 1, created_at |-> 1,
                             fields |-> SetField(EmptyFields, << "demographics" >>, << "a" >>) ] >>
                   ELSE << >>
        /\ session = [s \in Sessions |->
                        [ mongo_connected |-> connected /\ s = 1,
                          user_id |-> IF connected /\ s = 1 THEN s ELSE NoId ]]
        /\ calls = [c \in Calls |-> IF c = 1 THEN DemographicsCall(connected) ELSE IdleCall]
        /\ clock = IF connected THEN 2 ELSE 1
        /\ nextId = NumSessions + 1
        /\ nwrites = IF connected THEN 1 ELSE 0
        /\ app = SurveyEntry
        /\ retry = IdleRetry

\* survey.main shows the form: the survey page, not yet submitted
SurveyShown ==
    /\ app.at = "page"
    /\ app.app_state = "survey"
    /\ ~app.survey_completed
    /\ ~app.submitted

\* the respondent picks an option of the radio of the question on the screen
\* (lines 187-196): on_change runs when the option differs from the one held
Answer ==
    /\ SurveyShown
    /\ app.current_question \in 1..Len(question_texts)
    /\ \E value \in Values(app.current_question) :
          /\ app.current_question \in DOMAIN app.responses
                => app.responses[app.current_question] # value
          /\ app' = on_response_change(app, app.current_question, value)
    /\ OnlyApp

\* "Begin Survey" on the start screen (line 178) or "Next" on a question
\* before the last (lines 209-215)
NextQuestion ==
    /\ SurveyShown
    /\ app.current_question \in 0..(Len(question_texts) - 1)
    /\ app' = next_question(app)
    /\ OnlyApp

\* "Previous", on every question after the first (lines 203-205)
PrevQuestion ==
    /\ SurveyShown
    /\ app.current_question \in 2..Len(question_texts)
    /\ app' = prev_question(app)
    /\ OnlyApp

\* "Submit" on the last question (lines 216-217); when submit_form has set
\* submitted the rerun goes through survey_main of webapp.py (lines 201-211):
\* the scores, then on_survey_complete
SubmitForm ==
    /\ SurveyShown
    /\ app.current_question = Len(question_texts)
    /\ LET a0 == submit_form(app) IN
       IF a0.submitted
       THEN LET a1 == [a0 EXCEPT !.score_results = calculate_scores(a0.responses),
                                 !.survey_completed = TRUE]
            IN IF session[1].mongo_connected
               THEN CallUpsert(a1, "save_survey_results", "big5", survey_data(a1))
               ELSE app' = goto(a1, "results") /\ OnlyApp
       ELSE app' = a0 /\ OnlyApp

NextSurvey ==
    \/ Answer
    \/ NextQuestion
    \/ PrevQuestion
    \/ SubmitForm
    \/ SurveySaved
    \/ ResultsPage
    \/ \E c \in Calls : UpdateApplied(c)
    \/ \E c \in Calls : UpdateRaised(c)

SpecSurvey == InitSurvey /\ [][NextSurvey]_vars

\* the survey page of the workflow is entered in the states of InitSurvey
SurveyEntered ==
    /\ app = SurveyEntry
    /\ \E connected \in BOOLEAN :
          /\ calls[1] = DemographicsCall(connected)
          /\ session[1].mongo_connected = connected
          /\ store = IF connected
                     THEN << [ id |-> 1, created_at |-> 1,
                               fields |-> SetField(EmptyFields, << "demographics" >>, << "a" >>) ] >>
                     ELSE << >>
          /\ clock = IF connected THEN 2 ELSE 1
          /\ nwrites = IF connected THEN 1 ELSE 0

\* ---------------------------------------------------------------------- C21
\* C21: current_question never goes below 0 and every question before the
\* current one has a response; current_question increases only by one, and
\* only from 0 or from a question that has a response.
C21_AnsweredBeforeNext ==
    /\ [](/\ app.current_question >= 0
          /\ \A q \in 1..(app.current_question - 1) : q \in DOMAIN app.responses)
    /\ [][app'.current_question > app.current_question =>
            /\ app'.current_question = app.current_question + 1
            /\ \/ app.current_question = 0
               \/ app.current_question \in DOMAIN app.responses]_vars

\* the respondent answered three questions and went back to the second
C21_Witness ==
    /\ app.current_question = 2
    /\ DOMAIN app.responses = { 1, 2, 3 }
    /\ ~app.submitted

\* ---------------------------------------------------------------------- C22
\* the documents of the store with a big5 section
WithBig5 == { i \in 1..Len(store) : << "big5" >> \in DOMAIN store[i].fields }

\* C22: submitted implies a response for each of the 44 questions; from a
\* state with a response missing no step sets submitted or scores, and on
\* the last question each step answers, goes back or changes nothing; the
\* scores kept in score_results and stored under big5 are those of the
\* complete answer set, each in [1, 5].
C22_SubmittedComplete ==
    /\ [](app.submitted => DOMAIN app.responses = questions)
    /\ [](Scored =>
            /\ app.submitted
            /\ app.score_results = calculate_scores(app.responses)
            /\ \A T \in Traits :
                  /\ app.score_results[T].den > 0
                  /\ app.score_results[T].den <= app.score_results[T].num
                  /\ app.score_results[T].num <= 5 * app.score_results[T].den)
    /\ [](\A i \in WithBig5 :
            /\ Scored
            /\ store[i].fields[<< "big5" >>].scores = app.score_results)
    /\ [][DOMAIN app.responses # questions =>
            /\ ~app'.submitted
            /\ app'.score_results = app.score_results
            /\ app.current_question = Len(question_texts) =>
                  \/ app' = app
                  \/ app'.responses # app.responses
                  \/ app'.current_question = app.current_question - 1]_vars

\* a complete form with the reverse item 6 at an end of the scale has been
\* submitted, scored and stored
C22_Witness ==
    /\ app.submitted
    /\ Scored
    /\ WithBig5 # {}
    /\ app.responses[6] = 1
    /\ app.score_results["Extraversion"].num > 3 * app.score_results["Extraversion"].den

\* ---------------------------------------------------------------------- C29
\* C29: responses_by_text has exactly one entry per answered question, under
\* the text of the question and with the value responses holds; the
\* responses stored with the big5 bundle are the 44 latest answers.
C29_MapsInStep ==
    /\ DOMAIN app.responses_by_text =
          { question_text(q) : q \in DOMAIN app.responses }
    /\ Cardinality(DOMAIN app.responses_by_text) = Cardinality(DOMAIN app.responses)
    /\ \A q \in DOMAIN app.responses :
          app.responses_by_text[question_text(q)] = app.responses[q]
    /\ \A i \in WithBig5 :
          LET r == store[i].fields[<< "big5" >>].responses IN
          /\ Cardinality(DOMAIN r) = Len(question_texts)
          /\ \A q \in questions : r[question_text(q)] = app.responses[q]

\* a question was answered again and the bundle stored holds the later value
C29_Witness ==
    /\ app.reanswered
    /\ WithBig5 # {}
    /\ app.responses[1] = 5
    /\ store[1].fields[<< "big5" >>].responses["Is talkative"] = 5

\* ============================================ retry_connection, db_utils.py
\* One wrapper built by retry_connection(max_attempts, delay) around some
\* function, called once.  The wrapper waits inside func and inside
\* time.sleep; a call of func returns a value or raises an Exception.
Delays == { 0, 1, 2 }
ReturnValues == { "True", "False", "None" }

InitRetry ==
    /\ store = << >>
    /\ session = [s \in Sessions |-> [ mongo_connected |-> FALSE, user_id |-> NoId ]]
    /\ calls = [c \in Calls |-> IdleCall]
    /\ clock = 1
    /\ nextId = NumSessions + 1
    /\ nwrites = 0
    /\ app = FreshApp
    /\ \E m \in 0..AttemptLimit, d \in Delays :
          retry = [IdleRetry EXCEPT !.max_attempts = m, !.delay = d]

OnlyRetry == UNCHANGED << store, session, calls, clock, nextId, nwrites, app >>

\* line 15, the test of the while loop, and line 17, the call of func; when
\* the test fails the wrapper ends without a return statement
retry_loop(r) ==
    IF r.attempts < r.max_attempts
    THEN [r EXCEPT !.pc = "func", !.func_calls = @ + 1]
    ELSE [r EXCEPT !.pc = "done", !.result = "None"]

\* line 17: return func(*args, **kwargs)
retry_return(r, value) ==
    [r EXCEPT !.pc = "done", !.result = value,
              !.outcomes = Append(@, [ kind |-> "return", value |-> value ])]

\* an except clause that sleeps longer after each failure
retry_except_backoff(r) ==
    LET r1 == [r EXCEPT !.attempts = @ + 1,
                        !.outcomes = Append(@, [ kind |-> "raise", value |-> "Exception" ])]
    IN IF r1.attempts = r1.max_attempts
       THEN [r1 EXCEPT !.pc = "done", !.result = "None"]
       ELSE [r1 EXCEPT !.pc = "sleep", !.waits = Append(@, r1.delay * r1.attempts)]

\* lines 18-24: except Exception, up to time.sleep(delay)
retry_except(r) ==
    LET r1 == [r EXCEPT !.attempts = @ + 1,
                        !.outcomes = Append(@, [ kind |-> "raise", value |-> "Exception" ])]
    IN IF r1.attempts = r1.max_attempts
       THEN [r1 EXCEPT !.pc = "done", !.result = "None"]
       ELSE [r1 EXCEPT !.pc = "sleep", !.waits = Append(@, r1.delay)]

\* wrapper(*args, **kwargs) is called: attempts = 0 and the loop starts
CallWrapper ==
    /\ retry.pc = "idle"
    /\ retry' = retry_loop([retry EXCEPT !.attempts = 0])
    /\ OnlyRetry

\* func returns
FuncReturns ==
    /\ retry.pc = "func"
    /\ \E value \in ReturnValues : retry' = retry_return(retry, value)
    /\ OnlyRetry

\* func raises an Exception
FuncRaises ==
    /\ retry.pc = "func"
    /\ retry' = retry_except(retry)
    /\ OnlyRetry

\* time.sleep(delay) returns and the loop goes on
SleepEnds ==
    /\ retry.pc = "sleep"
    /\ retry' = retry_loop(retry)
    /\ OnlyRetry

NextRetry ==
    \/ CallWrapper
    \/ FuncReturns
    \/ FuncRaises
    \/ SleepEnds

SpecRetry == InitRetry /\ [][NextRetry]_vars

\* every call of func ends, by a return or a raise, and every sleep ends
FairRetry ==
    /\ SpecRetry
    /\ WF_vars(FuncReturns \/ FuncRaises)
    /\ WF_vars(SleepEnds)

\* ---------------------------------------------------------------------- C24
Raises == { i \in 1..Len(retry.outcomes) : retry.outcomes[i].kind = "raise" }

\* C24: a called wrapper ends; func is called at most max_attempts times; a
\* call that returns is the last one and its value is the result; before
\* each call but the first the wrapper has slept delay once, and it does not
\* sleep after the last; after max_attempts raises the result is None; an
\* ended wrapper does nothing more.
C24_RetryTerminates ==
    /\ (retry.pc # "idle") ~> (retry.pc = "done")
    /\ [](/\ retry.func_calls <= retry.max_attempts
          /\ Len(retry.outcomes) = IF retry.pc = "func" THEN retry.func_calls - 1
                                   ELSE retry.func_calls
          /\ \A i \in 1..Len(retry.outcomes) :
                retry.outcomes[i].kind = "return" =>
                    /\ i = Len(retry.outcomes)
                    /\ retry.pc = "done"
                    /\ retry.result = retry.outcomes[i].value
          /\ \A i \in 1..Len(retry.waits) : retry.waits[i] = retry.delay
          /\ Len(retry.waits) = IF retry.pc = "sleep" THEN retry.func_calls
                                ELSE IF retry.func_calls = 0 THEN 0
                                ELSE retry.func_calls - 1
          /\ (retry.pc = "done" /\ Raises = 1..Len(retry.outcomes)) =>
                /\ retry.result = "None"
                /\ retry.func_calls = retry.max_attempts)
    /\ [][retry.pc = "done" => retry' = retry]_vars

\* three calls of a wrapper built with max_attempts = 3 and delay = 2 have
\* raised: two sleeps of 2 and the result None
C24_Witness ==
    /\ retry.pc = "done"
    /\ retry.max_attempts = 3
    /\ retry.func_calls = 3
    /\ retry.waits = << 2, 2 >>
    /\ retry.result = "None"
    /\ Raises = { 1, 2, 3 }

\* ====================================================== the workflow's progress
\* the provider answers every request of a run of the function
GoodRun == [ valid |-> TRUE, refresh |-> TRUE, user |-> TRUE, replies |-> AllItems ]

\* a script run whose token exchange and fetch succeed: the step of
\* SpotifyCallback or of SpotifyPage in which the provider answers everything
FetchSucceeds ==
    /\ app.at = "page"
    /\ ~app.spotify_data_collected
    /\ \/ /\ ~app.spotify_initialized
          /\ app' = collect_spotify_data(
                        goto([app EXCEPT !.spotify_initialized = TRUE], "spotify"),
                        GoodRun)
       \/ /\ app.spotify_initialized
          /\ app.app_state = "spotify"
          /\ app' = init_spotify(app, GoodRun, FALSE)
    /\ app'.spotify_data_collected
    /\ OnlyApp

\* the step of SpotifyPage in which the user presses the button shown: the
\* "Retry Data Collection" button after a failed attempt, or the button
\* that leaves the page
ButtonPressed ==
    /\ app.at = "page"
    /\ app.app_state = "spotify"
    /\ app.spotify_initialized
    /\ app' = IF ~app.spotify_data_collected
              THEN init_spotify(app, GoodRun, TRUE)
              ELSE goto(app, "demographics")
    /\ app.spotify_data_collection_attempted \/ app.spotify_data_collected
    /\ OnlyApp

\* the store answers a request, by an acknowledgement or by an error
StoreAnswers ==
    \E c \in Calls :
        \/ Reconnected(c)
        \/ ReconnectFailed(c)
        \/ UpdateApplied(c)
        \/ UpdateRaised(c)

\* the user does what the page shown asks for: presses its button, submits
\* its form
UserActs ==
    \/ BeginSurvey
    \/ ButtonPressed
    \/ DemographicsPage
    \/ SurveyPage

\* a script whose upsert_user_document call has returned goes on
ScriptGoesOn == DemographicsSaved \/ SurveySaved

\* The user keeps acting, the store answers each request one way or the
\* other and the script goes on after it, and of the logins and fetches
\* attempted again and again one succeeds.
FairFlow ==
    /\ SpecFlow
    /\ WF_vars(UserActs)
    /\ WF_vars(StoreAnswers \/ ScriptGoesOn)
    /\ SF_vars(FetchSucceeds)

\* ---------------------------------------------------------------------- C30
\* C30: the session eventually is in the results state with
\* survey_completed and spotify_data_collected both true, whatever the
\* store does with the requests.
C30_ReachesResults ==
    <>(/\ app.app_state = "results"
       /\ app.survey_completed
       /\ app.spotify_data_collected)

\* the results are reached by a connected session all of whose writes
\* failed: both calls ended with False and the store is empty
C30_Witness ==
    /\ app.app_state = "results"
    /\ app.survey_completed
    /\ app.spotify_data_collected
    /\ session[1].mongo_connected
    /\ store = << >>
    /\ \A c \in { 1, 2 } : calls[c].pc = "done" /\ calls[c].result = "False"

=============================================================================
